---- MODULE Spec2Model ----
(***************************************************************************)
(* Model of the LLM extraction-and-validation pipeline of id8:             *)
(*   - the provider gateway (app/llm.py call_groq and                      *)
(*     app/llm_center/providers.py GroqProvider.call_llm) with its         *)
(*     round-robin credential counter and asyncio.Lock,                    *)
(*   - the self-heal path (layered_json_fix_and_validate, ai_self_heal_llm)*)
(*   - the orchestrator run_llm_pipeline,                                  *)
(*   - the nightly idea generation (generate_idea_pitches,                 *)
(*     run_nightly_pipeline).                                              *)
(***************************************************************************)
EXTENDS Integers, Sequences, FiniteSets, TLC

\* ------------------------------------------------------------------------
\* Bounds of the model
\* ------------------------------------------------------------------------
MaxKeys == 2           \* largest credential pool explored
NumRepos == 2          \* trending repositories of one nightly run
NumFields == 2         \* deep-dive fields of parse_paragraph_sections, in order
MaxHits == 2           \* keywords of one field's list found in a paragraph
MaxParas == 2          \* paragraphs of one response
MaxEvents == 3         \* 'idea.status.updated' events delivered for one idea
MaxTextLen == 8        \* longest text, in tokens, given to the extractor

\* ------------------------------------------------------------------------
\* Program constants
\* ------------------------------------------------------------------------
max_retries == 3            \* attempts of one gateway call
layered_max_retries == 3    \* self-heal rounds of layered_json_fix_and_validate
heal_max_retries == 2       \* provider calls of one ai_self_heal_llm run
max_attempts == 3           \* generation attempts per repo of the nightly run

\* Concurrent callers of the gateway: c1 is a coroutine of the main event
\* loop; c2 is either a second coroutine of that loop or the coroutine of a
\* worker thread that runs its own loop (IdeaService worker, asyncio.run).
Procs == {"c1", "c2"}
NoProc == "none"

\* Event loops: coroutines of one loop interleave only at await points,
\* loops of different threads interleave at every step.
Threads == {"main", "worker"}

\* Rotation counters that exist in the process:
\*   "llm"     module-level _groq_key_counter of app/llm.py
\*   "center"  _key_counter of the GroqProvider of an LLMCenter instance
Gateways == {"llm", "center"}

\* Provider answers to one HTTP request.
Responses == {"ok", "429", "neterr", "httperr"}

VARIABLES
    nKeys,      \* len(GROQ_API_KEYS) / len(config.api_keys)
    thread,     \* event loop each caller runs on
    running,    \* per event loop: the coroutine that holds it (NoProc: none)
    counter,    \* per gateway: the rotation counter
    locked,     \* per gateway: asyncio.Lock._locked
    pc,         \* per caller: position in call_groq / call_llm
    gw,         \* per caller: the gateway of the current call
    attempt,    \* per caller: loop variable attempt (1..max_retries)
    tmp,        \* per caller: value loaded by "_groq_key_counter += 1"
    outcome,    \* per caller: how the call completed
    \* history of the current call and of the counters (observation only)
    resp,       \* per caller: provider answers of the call, in order
    used,       \* per caller: credential indices of the call, in order
    reqs,       \* per caller: HTTP requests sent by the call
    sl429,      \* per caller: retry-after sleeps of the call
    slBack,     \* per caller: fixed backoff sleeps of the call
    foreign,    \* per caller: another caller advanced the counter meanwhile
    ticket,     \* per gateway: index selections made
    taken,      \* per gateway: increments made
    rankOk,     \* every attempt so far used index (its rank at its gateway) mod N
    gRankOk     \* every attempt so far used index (its rank in the process) mod N

gwVars == <<nKeys, thread, running, counter, locked, pc, gw, attempt, tmp,
            outcome, resp, used, reqs, sl429, slBack, foreign,
            ticket, taken, rankOk, gRankOk>>

\* ---- the sequential runs (self-heal, orchestrator, nightly generation) ----
VARIABLES
    hCtx,       \* "sync": no event loop is running; "async": inside a coroutine
    hpc,        \* position of the run of the self-heal path
    hRaw,       \* layered_json_fix_and_validate: raw
    hFixed,     \* layered_json_fix_and_validate: fixed
    hData,      \* layered_json_fix_and_validate: data
    hAttempt,   \* layered_json_fix_and_validate: loop variable attempt
    hInner,     \* ai_self_heal_llm: loop variable attempt
    hCalls,     \* call_groq invocations of the logical request
    hResult,    \* what the run gave back to its caller
    hNestedRun  \* maybe_await called asyncio.run while an event loop ran

healVars == <<hCtx, hpc, hRaw, hFixed, hData, hAttempt, hInner, hCalls, hResult,
              hNestedRun>>

VARIABLES
    plPc,       \* run_llm_pipeline: position
    plStage,    \* run_llm_pipeline: the stage argument
    plInput,    \* the LLMInputLog row of the run, as committed
    plLogs,     \* the LLMProcessingLog rows of the run, as committed
    plRaw,      \* run_llm_pipeline: raw_output
    plData,     \* run_llm_pipeline: cleaned, then normalized
    plResult    \* how the run ended for its caller

plVars == <<plPc, plStage, plInput, plLogs, plRaw, plData, plResult>>

VARIABLES
    ngPc,       \* run_nightly_pipeline / generate_idea_pitches: position
    ngRepo,     \* run_nightly_pipeline: index of the repo being processed
    ngAttempt,  \* run_nightly_pipeline: loop variable attempt
    ngIdeas,    \* result of generate_idea_pitches: the "ideas" entries
    ngRows      \* Idea rows committed by the run

ngVars == <<ngPc, ngRepo, ngAttempt, ngIdeas, ngRows>>

\* ---- the parsing and validation functions, applied to one input ----
VARIABLES
    psIn,       \* the argument of the call
    psOp,       \* "off", "input" (not called yet) or the function called
    psOut       \* what the call gave back to its caller

psVars == <<psIn, psOp, psOut>>

\* ---- extract_json_from_llm_response, applied to one text ----
VARIABLES
    exIn,       \* the response argument, a sequence of tokens
    exPc,       \* "off", "input" (not called yet) or "done"
    exOut       \* the text returned

exVars == <<exIn, exPc, exOut>>

\* ---- IdeaService: the deep dive of one idea ----
VARIABLES
    ddFlag,     \* ideas.deep_dive_requested as committed in the database
    ddPc,       \* position of each run of _on_status_updated
    ddSeen,     \* the flag as the handler's session read it
    ddEvents,   \* events delivered so far
    wkRunning,  \* threads inside _generate_and_save_deep_dive
    wkEnded,    \* worker threads that have finished
    wkLast,     \* the branch in which the last finished worker ended
    ddStarts    \* thread.start() calls since the flag last went to True

ddVars == <<ddFlag, ddPc, ddSeen, ddEvents, wkRunning, wkEnded, wkLast, ddStarts>>

fnVars == <<psVars, exVars, ddVars>>

seqVars == <<healVars, plVars, ngVars, fnVars>>

vars == <<gwVars, seqVars>>

\* ------------------------------------------------------------------------
\* Pure pieces of the gateway code
\* ------------------------------------------------------------------------

\* key = KEYS[counter % len(KEYS)]
KeyIndex(c, n) == c % n

\* counter += 1, as a mutant that leaves the counter where it is
NextCounterStuck(c) == c

\* counter += 1
NextCounter(c) == c + 1

\* "if attempt < max_retries" with an off-by-one slip
CanRetryOffByOne(a) == a <= max_retries

\* the loop "for attempt in range(1, max_retries + 1)" has a next iteration
CanRetry(a) == a < max_retries

\* a status treated as rate limiting, also for every other HTTP error
IsRateLimitedAnyError(r) == r \in {"429", "httperr"}

\* response.status_code == 429
IsRateLimited(r) == r = "429"

\* except (httpx.ReadTimeout, httpx.ConnectTimeout, httpx.RequestError)
IsTransient(r) == r = "neterr"

\* the gateway an entry point uses
EntryGateway(e) == IF e = "call_groq" THEN "llm" ELSE "center"

\* llm.call_groq and LLMCenter.call_llm
Entries == {"call_groq", "call_llm"}

\* attempts made so far in the whole process
GlobalRank == ticket["llm"] + ticket["center"]

\* the coroutine may run: its loop is free or it holds the loop
CanRun(p) == running[thread[p]] \in {NoProc, p}

Hold(p) == [running EXCEPT ![thread[p]] = p]
Yield(p) == [running EXCEPT ![thread[p]] = NoProc]

\* ------------------------------------------------------------------------
\* Initial state
\* ------------------------------------------------------------------------
KeysLoadedUnchecked(n) == TRUE

\* "if not GROQ_API_KEYS: raise ValueError" when the module is imported, and
\* "if not groq_keys: raise ValueError" in LLMConfig.from_env, which every
\* construction of LLMCenter runs: without a key there is no gateway to call
KeysLoaded(n) == n > 0

GwInit ==
    /\ nKeys \in 0..MaxKeys
    /\ thread \in {f \in [Procs -> Threads] : f["c1"] = "main"}
    /\ running = [t \in Threads |-> NoProc]
    /\ counter = [g \in Gateways |-> 0]
    /\ locked = [g \in Gateways |-> FALSE]
    /\ pc = [p \in Procs |-> "idle"]
    /\ gw = [p \in Procs |-> "llm"]
    /\ attempt = [p \in Procs |-> 1]
    /\ tmp = [p \in Procs |-> 0]
    /\ outcome = [p \in Procs |-> "none"]
    /\ resp = [p \in Procs |-> <<>>]
    /\ used = [p \in Procs |-> <<>>]
    /\ reqs = [p \in Procs |-> 0]
    /\ sl429 = [p \in Procs |-> 0]
    /\ slBack = [p \in Procs |-> 0]
    /\ foreign = [p \in Procs |-> FALSE]
    /\ ticket = [g \in Gateways |-> 0]
    /\ taken = [g \in Gateways |-> 0]
    /\ rankOk = TRUE
    /\ gRankOk = TRUE

\* ------------------------------------------------------------------------
\* call_groq / GroqProvider.call_llm, one action per step
\* ------------------------------------------------------------------------

\* entry of the call (each caller makes one call): attempt = 1, head of the
\* for loop.  A worker thread (IdeaService._on_status_updated) reaches the
\* gateway through the legacy wrappers, that is GroqProvider.call_llm of the
\* shared LLMCenter; coroutines of the main loop use either entry.
StartCall(p, e) ==
    /\ pc[p] = "idle"
    /\ KeysLoaded(nKeys)
    /\ thread[p] = "worker" => e = "call_llm"
    /\ UNCHANGED seqVars
    /\ CanRun(p)
    /\ running' = Hold(p)
    /\ gw' = [gw EXCEPT ![p] = EntryGateway(e)]
    /\ pc' = [pc EXCEPT ![p] = "lock_test"]
    /\ attempt' = [attempt EXCEPT ![p] = 1]
    /\ outcome' = [outcome EXCEPT ![p] = "none"]
    /\ resp' = [resp EXCEPT ![p] = <<>>]
    /\ used' = [used EXCEPT ![p] = <<>>]
    /\ reqs' = [reqs EXCEPT ![p] = 0]
    /\ sl429' = [sl429 EXCEPT ![p] = 0]
    /\ slBack' = [slBack EXCEPT ![p] = 0]
    /\ foreign' = [foreign EXCEPT ![p] = FALSE]
    /\ UNCHANGED <<nKeys, thread, counter, locked, tmp, ticket, taken, rankOk, gRankOk>>

\* async with lock: asyncio.Lock.acquire finds the lock free
LockTest(p) ==
    /\ pc[p] = "lock_test"
    /\ UNCHANGED seqVars
    /\ CanRun(p)
    /\ ~locked[gw[p]]
    /\ running' = Hold(p)
    /\ pc' = [pc EXCEPT ![p] = "lock_set"]
    /\ UNCHANGED <<nKeys, thread, counter, locked, gw, attempt, tmp,
                   outcome, resp, used, reqs, sl429, slBack, foreign,
                   ticket, taken, rankOk, gRankOk>>

\* asyncio.Lock.acquire finds the lock held: the coroutine awaits a future
LockBlocked(p) ==
    /\ pc[p] = "lock_test"
    /\ UNCHANGED seqVars
    /\ CanRun(p)
    /\ locked[gw[p]]
    /\ running' = Yield(p)
    /\ pc' = [pc EXCEPT ![p] = "lock_wait"]
    /\ UNCHANGED <<nKeys, thread, counter, locked, gw, attempt, tmp,
                   outcome, resp, used, reqs, sl429, slBack, foreign,
                   ticket, taken, rankOk, gRankOk>>

\* the future of a waiting acquire is resolved after a release
LockWake(p) ==
    /\ pc[p] = "lock_wait"
    /\ UNCHANGED seqVars
    /\ CanRun(p)
    /\ ~locked[gw[p]]
    /\ running' = Hold(p)
    /\ pc' = [pc EXCEPT ![p] = "lock_set"]
    /\ UNCHANGED <<nKeys, thread, counter, locked, gw, attempt, tmp,
                   outcome, resp, used, reqs, sl429, slBack, foreign,
                   ticket, taken, rankOk, gRankOk>>

\* asyncio.Lock.acquire: self._locked = True
LockSet(p) ==
    /\ pc[p] = "lock_set"
    /\ UNCHANGED seqVars
    /\ running[thread[p]] = p
    /\ locked' = [locked EXCEPT ![gw[p]] = TRUE]
    /\ pc' = [pc EXCEPT ![p] = "key_read"]
    /\ UNCHANGED <<nKeys, thread, running, counter, gw, attempt, tmp,
                   outcome, resp, used, reqs, sl429, slBack, foreign,
                   ticket, taken, rankOk, gRankOk>>

\* _get_next_groq_key: key = KEYS[counter % len(KEYS)]
KeyRead(p) ==
    /\ pc[p] = "key_read"
    /\ UNCHANGED seqVars
    /\ running[thread[p]] = p
    /\ used' = [used EXCEPT ![p] = Append(@, KeyIndex(counter[gw[p]], nKeys))]
    /\ rankOk' = (rankOk /\ KeyIndex(counter[gw[p]], nKeys) = ticket[gw[p]] % nKeys)
    /\ gRankOk' = (gRankOk /\ KeyIndex(counter[gw[p]], nKeys) = GlobalRank % nKeys)
    /\ ticket' = [ticket EXCEPT ![gw[p]] = @ + 1]
    /\ pc' = [pc EXCEPT ![p] = "key_load"]
    /\ UNCHANGED <<nKeys, thread, running, counter, locked, gw, attempt, tmp,
                   outcome, resp, reqs, sl429, slBack, foreign, taken>>

\* _get_next_groq_key: counter += 1, the load
KeyLoad(p) ==
    /\ pc[p] = "key_load"
    /\ UNCHANGED seqVars
    /\ running[thread[p]] = p
    /\ tmp' = [tmp EXCEPT ![p] = counter[gw[p]]]
    /\ pc' = [pc EXCEPT ![p] = "key_store"]
    /\ UNCHANGED <<nKeys, thread, running, counter, locked, gw, attempt,
                   outcome, resp, used, reqs, sl429, slBack, foreign,
                   ticket, taken, rankOk, gRankOk>>

\* _get_next_groq_key: counter += 1, the store
KeyStore(p) ==
    /\ pc[p] = "key_store"
    /\ UNCHANGED seqVars
    /\ running[thread[p]] = p
    /\ counter' = [counter EXCEPT ![gw[p]] = NextCounter(tmp[p])]
    /\ taken' = [taken EXCEPT ![gw[p]] = @ + 1]
    /\ foreign' = [q \in Procs |->
                     IF /\ q # p
                        /\ gw[q] = gw[p]
                        /\ pc[q] \notin {"idle", "done"}
                        /\ Len(used[q]) >= 1
                     THEN TRUE ELSE foreign[q]]
    /\ pc' = [pc EXCEPT ![p] = "release"]
    /\ UNCHANGED <<nKeys, thread, running, locked, gw, attempt, tmp,
                   outcome, resp, used, reqs, sl429, slBack,
                   ticket, rankOk, gRankOk>>

\* end of "async with lock", then the request is sent: await client.post
Release(p) ==
    /\ pc[p] = "release"
    /\ UNCHANGED seqVars
    /\ running[thread[p]] = p
    /\ locked' = [locked EXCEPT ![gw[p]] = FALSE]
    /\ running' = Yield(p)
    /\ pc' = [pc EXCEPT ![p] = "post"]
    /\ reqs' = [reqs EXCEPT ![p] = @ + 1]
    /\ UNCHANGED <<nKeys, thread, counter, gw, attempt, tmp,
                   outcome, resp, used, sl429, slBack, foreign,
                   ticket, taken, rankOk, gRankOk>>

\* the provider answers the request; the body of the try block and its
\* except clauses
Respond(p, r) ==
    /\ pc[p] = "post"
    /\ UNCHANGED seqVars
    /\ CanRun(p)
    /\ resp' = [resp EXCEPT ![p] = Append(@, r)]
    /\ running' = Yield(p)
    /\ IF IsRateLimited(r)
       THEN \* sleep retry-after, continue
            /\ sl429' = [sl429 EXCEPT ![p] = @ + 1]
            /\ pc' = [pc EXCEPT ![p] = "sleeping"]
            /\ UNCHANGED <<slBack, outcome>>
       ELSE IF r = "ok"
       THEN \* return content
            /\ outcome' = [outcome EXCEPT ![p] = "text"]
            /\ pc' = [pc EXCEPT ![p] = "done"]
            /\ UNCHANGED <<sl429, slBack>>
       ELSE IF IsTransient(r)
       THEN IF CanRetry(attempt[p])
            THEN \* sleep the fixed backoff
                 /\ slBack' = [slBack EXCEPT ![p] = @ + 1]
                 /\ pc' = [pc EXCEPT ![p] = "sleeping"]
                 /\ UNCHANGED <<sl429, outcome>>
            ELSE \* raise
                 /\ outcome' = [outcome EXCEPT ![p] = "raise_transient"]
                 /\ pc' = [pc EXCEPT ![p] = "done"]
                 /\ UNCHANGED <<sl429, slBack>>
       ELSE \* raise_for_status raises HTTPStatusError: except Exception, raise
            /\ outcome' = [outcome EXCEPT ![p] = "raise_fatal"]
            /\ pc' = [pc EXCEPT ![p] = "done"]
            /\ UNCHANGED <<sl429, slBack>>
    /\ UNCHANGED <<nKeys, thread, counter, locked, gw, attempt, tmp,
                   used, reqs, foreign, ticket, taken, rankOk, gRankOk>>

\* asyncio.sleep returns: next iteration of the for loop, or the loop is
\* over and the function falls off its end (returns None)
SleepDone(p) ==
    /\ pc[p] = "sleeping"
    /\ UNCHANGED seqVars
    /\ CanRun(p)
    /\ IF attempt[p] < max_retries
       THEN /\ attempt' = [attempt EXCEPT ![p] = @ + 1]
            /\ pc' = [pc EXCEPT ![p] = "lock_test"]
            /\ running' = Hold(p)
            /\ UNCHANGED outcome
       ELSE /\ outcome' = [outcome EXCEPT ![p] = "returned_none"]
            /\ pc' = [pc EXCEPT ![p] = "done"]
            /\ running' = Yield(p)
            /\ UNCHANGED attempt
    /\ UNCHANGED <<nKeys, thread, counter, locked, gw, tmp,
                   resp, used, reqs, sl429, slBack, foreign,
                   ticket, taken, rankOk, gRankOk>>

GwNext ==
    \E p \in Procs :
        \/ \E e \in Entries : StartCall(p, e)
        \/ LockTest(p)
        \/ LockBlocked(p)
        \/ LockWake(p)
        \/ LockSet(p)
        \/ KeyRead(p)
        \/ KeyLoad(p)
        \/ KeyStore(p)
        \/ Release(p)
        \/ \E r \in Responses : Respond(p, r)
        \/ SleepDone(p)

\* ------------------------------------------------------------------------
\* Provider texts and parsed data
\* ------------------------------------------------------------------------

\* a field of an idea object: absent, "", whitespace only, a non-empty
\* string, or a value that is not a string (a number)
FieldVals == {"absent", "empty", "blank", "str", "nonstr"}
PitchVals == {"absent", "str", "nonstr"}

\* an idea object, by the fields the validation and normalization look at
IdeaDicts == [title : FieldVals, hook : FieldVals, pitch : PitchVals]
NoBody == [title |-> "absent", hook |-> "absent", pitch |-> "absent"]

\* a provider text: a strict JSON object, the same in a fenced code block
\* with prose around it, an object with unquoted keys or trailing commas,
\* a strict JSON array holding one object, prose without any JSON, or ""
Texts ==
    {[form |-> f, body |-> b] : f \in {"json", "fenced", "dirty", "array"},
                                b \in IdeaDicts}
    \cup {[form |-> "prose", body |-> NoBody], [form |-> "empty", body |-> NoBody]}
NoText == [form |-> "empty", body |-> NoBody]

\* parsed values: a dict, a list of one dict, nothing (None), or the
\* failure of json.loads
NoData == [kind |-> "none", body |-> NoBody]
LoadsFailed == [kind |-> "fail", body |-> NoBody]

\* the answers of the provider to the requests of one call
RespSeqs == [1..max_retries -> Responses]

\* call_groq run by a sole caller on the answers rs, from attempt a on
RECURSIVE SeqCallFrom(_, _)
SeqCallFrom(rs, a) ==
    LET retry == IF a < max_retries
                 THEN SeqCallFrom(rs, a + 1)
                 ELSE [outcome |-> "returned_none", attempts |-> a]
    IN  IF IsRateLimited(rs[a]) THEN retry
        ELSE IF rs[a] = "ok" THEN [outcome |-> "text", attempts |-> a]
        ELSE IF IsTransient(rs[a])
             THEN IF CanRetry(a) THEN retry
                  ELSE [outcome |-> "raise_transient", attempts |-> a]
        ELSE [outcome |-> "raise_fatal", attempts |-> a]

SeqCall(rs) == SeqCallFrom(rs, 1)

\* the counters after a sole caller made n attempts through llm.call_groq
AfterAttempts(n) == [counter EXCEPT !["llm"] = @ + n]

\* repair_json_with_py: dirtyjson.loads then json.dumps; the text itself
\* when dirtyjson cannot load it
RepairJson(t) ==
    IF t.form \in {"json", "dirty"} THEN [form |-> "json", body |-> t.body]
    ELSE t

\* dummy_stream_repair
DummyStreamRepair(t) == RepairJson(t)

\* json.loads
JsonLoads(t) ==
    IF t.form = "json" THEN [kind |-> "dict", body |-> t.body]
    ELSE IF t.form = "array" THEN [kind |-> "list", body |-> t.body]
    ELSE LoadsFailed

\* json.dumps
JsonDumps(d) ==
    IF d.kind = "dict" THEN [form |-> "json", body |-> d.body]
    ELSE [form |-> "array", body |-> d.body]

\* validate_idea_dict on a dict: title and hook are non-empty strings
ValidateIdeaDict(b) == b.title = "str" /\ b.hook = "str"

\* validate_idea_dict on a list: list has no attribute get
ValidatorRaises(d) == d.kind = "list"

\* schema_validator(data) returned True
SchemaOk(d) == d.kind = "dict" /\ ValidateIdeaDict(d.body)

\* robust_extract_json: the content of the code block, or the text from
\* the first brace or bracket on
ExtractCandidate(t) ==
    IF t.form = "fenced" THEN [form |-> "json", body |-> t.body]
    ELSE IF t.form = "fenced_array" THEN [form |-> "array", body |-> t.body]
    ELSE t

\* layered_json_fix_and_validate, steps 2 and 3: json.loads, else
\* json.loads of the repaired text, else None
ParseOrRepair(raw) ==
    IF JsonLoads(raw).kind # "fail" THEN JsonLoads(raw)
    ELSE IF JsonLoads(RepairJson(raw)).kind # "fail" THEN JsonLoads(RepairJson(raw))
    ELSE NoData

\* one round of the self-heal loop after ai_self_heal_func gave fx (healed:
\* FALSE when maybe_await raised and fixed kept its value): data and whether
\* the loop breaks
HealRound(fx, data, healed) ==
    LET d1 == IF healed THEN JsonLoads(fx) ELSE LoadsFailed
        a1 == IF d1.kind = "fail" THEN data ELSE d1
        d2 == JsonLoads(RepairJson(fx))
        a2 == IF d2.kind = "fail" THEN a1 ELSE d2
    IN  IF SchemaOk(d1) THEN [brk |-> TRUE, data |-> d1]
        ELSE [brk |-> SchemaOk(d2), data |-> a2]

\* the self-heal loop when maybe_await raises in every round
RECURSIVE RoundsWithoutHeal(_, _, _)
RoundsWithoutHeal(fx, data, n) ==
    IF n = 0 THEN data
    ELSE IF HealRound(fx, data, FALSE).brk THEN HealRound(fx, data, FALSE).data
    ELSE RoundsWithoutHeal(fx, HealRound(fx, data, FALSE).data, n - 1)

\* robust_extract_json called inside a running event loop: no provider call
RobustExtractAsync(t) ==
    LET raw == DummyStreamRepair(ExtractCandidate(t))
        data == ParseOrRepair(raw)
    IN  IF t.form = "empty" THEN [status |-> "returned", data |-> NoData]
        ELSE IF data.kind = "none" THEN [status |-> "returned", data |-> NoData]
        ELSE IF ValidatorRaises(data) THEN [status |-> "raised", data |-> NoData]
        ELSE IF SchemaOk(data) THEN [status |-> "returned", data |-> data]
        ELSE [status |-> "returned",
              data |-> RoundsWithoutHeal(raw, data, layered_max_retries)]

Pending == [status |-> "pending", data |-> NoData]

\* ------------------------------------------------------------------------
\* The self-heal path: a request, robust_extract_json on its answer,
\* layered_json_fix_and_validate driving ai_self_heal_llm
\* ------------------------------------------------------------------------
HealInit ==
    /\ hCtx \in {"sync", "async"}
    /\ hpc = "start"
    /\ hRaw = NoText
    /\ hFixed = NoText
    /\ hData = NoData
    /\ hAttempt = 0
    /\ hInner = 0
    /\ hCalls = 0
    /\ hResult = Pending
    /\ hNestedRun = FALSE

HealIdle ==
    /\ hCtx = "async"
    /\ hpc = "off"
    /\ hRaw = NoText
    /\ hFixed = NoText
    /\ hData = NoData
    /\ hAttempt = 0
    /\ hInner = 0
    /\ hCalls = 0
    /\ hResult = Pending
    /\ hNestedRun = FALSE

\* the gateway state of a run with a sole caller
GwSolo ==
    /\ GwInit
    /\ nKeys = MaxKeys
    /\ thread = [p \in Procs |-> "main"]

GwFrame == UNCHANGED <<nKeys, thread, running, locked, pc, gw, attempt, tmp,
                       outcome, resp, used, reqs, sl429, slBack, foreign,
                       ticket, taken, rankOk, gRankOk>>

HealFrame == GwFrame /\ UNCHANGED <<plVars, ngVars, fnVars>>

\* the initial call of the logical request: response = await call_groq(prompt)
HealInitialCall(rs) ==
    /\ hpc = "start"
    /\ hCalls' = hCalls + 1
    /\ counter' = AfterAttempts(SeqCall(rs).attempts)
    /\ IF SeqCall(rs).outcome = "text"
       THEN hpc' = "initial_text" /\ UNCHANGED hResult
       ELSE hpc' = "done" /\ hResult' = [status |-> "no_response", data |-> NoData]
    /\ UNCHANGED <<hCtx, hRaw, hFixed, hData, hAttempt, hInner, hNestedRun>>
    /\ HealFrame

\* maybe_await with a coroutine function while a loop is running: the
\* RuntimeError raised after get_running_loop() is caught by the function's
\* own "except RuntimeError", whose body calls asyncio.run
MaybeAwaitRunsNested(ctx) == ctx = "async"

\* the self-heal loop of layered_json_fix_and_validate is entered
HealLoopEntered(t) ==
    LET data == ParseOrRepair(DummyStreamRepair(ExtractCandidate(t)))
    IN  /\ t.form # "empty"
        /\ data.kind # "none"
        /\ ~ValidatorRaises(data)
        /\ ~SchemaOk(data)

\* robust_extract_json(response) up to the first self-heal provider call
HealExtract(t) ==
    /\ hpc = "initial_text"
    /\ LET raw == DummyStreamRepair(ExtractCandidate(t))
           data == ParseOrRepair(raw)
       IN  /\ hRaw' = raw
           /\ hFixed' = raw
           /\ IF \/ hCtx = "async"
                 \/ t.form = "empty"
                 \/ data.kind = "none"
                 \/ ValidatorRaises(data)
                 \/ SchemaOk(data)
              THEN /\ hResult' = RobustExtractAsync(t)
                   /\ hData' = RobustExtractAsync(t).data
                   /\ hpc' = "done"
              ELSE \* first round: asyncio.run(ai_self_heal_llm(raw, validator))
                   /\ hData' = data
                   /\ hpc' = "heal_call"
                   /\ UNCHANGED hResult
    /\ hNestedRun' = (HealLoopEntered(t) /\ MaybeAwaitRunsNested(hCtx))
    /\ hAttempt' = 0
    /\ hInner' = 0
    /\ UNCHANGED <<hCtx, hCalls, counter>>
    /\ HealFrame

\* ai_self_heal_llm returned fx to layered_json_fix_and_validate: the rest
\* of the round, then the next round or the return of data
HealReturned(fx) ==
    LET rr == HealRound(fx, hData, TRUE)
    IN  /\ hFixed' = fx
        /\ hData' = rr.data
        /\ hInner' = 0
        /\ IF rr.brk \/ hAttempt + 1 >= layered_max_retries
           THEN /\ hpc' = "done"
                /\ hResult' = [status |-> "returned", data |-> rr.data]
                /\ UNCHANGED hAttempt
           ELSE /\ hpc' = "heal_call"
                /\ hAttempt' = hAttempt + 1
                /\ UNCHANGED hResult

\* an attempt of ai_self_heal_llm gave nothing valid: next attempt, or
\* "return raw" after the last
HealAttemptFailed ==
    IF hInner + 1 < heal_max_retries
    THEN /\ hInner' = hInner + 1
         /\ hpc' = "heal_call"
         /\ UNCHANGED <<hFixed, hData, hAttempt, hResult>>
    ELSE HealReturned(hRaw)

\* ai_self_heal_llm: response = await call_groq(prompt)
HealCallGroq(rs) ==
    /\ hpc = "heal_call"
    /\ hCalls' = hCalls + 1
    /\ counter' = AfterAttempts(SeqCall(rs).attempts)
    /\ IF SeqCall(rs).outcome = "text"
       THEN /\ hpc' = "heal_text"
            /\ UNCHANGED <<hFixed, hData, hAttempt, hInner, hResult>>
       ELSE \* None: continue; an exception: caught, next attempt
            HealAttemptFailed
    /\ UNCHANGED <<hCtx, hRaw, hNestedRun>>
    /\ HealFrame

\* ai_self_heal_llm: parse and validate the text of the provider
HealText(t) ==
    /\ hpc = "heal_text"
    /\ IF SchemaOk(ParseOrRepair(t))
       THEN HealReturned(JsonDumps(ParseOrRepair(t)))
       ELSE HealAttemptFailed
    /\ UNCHANGED <<hCtx, hRaw, hCalls, counter, hNestedRun>>
    /\ HealFrame

HealNext ==
    \/ \E rs \in RespSeqs : HealInitialCall(rs)
    \/ \E t \in Texts : HealExtract(t)
    \/ \E rs \in RespSeqs : HealCallGroq(rs)
    \/ \E t \in Texts : HealText(t)

\* C1: one run of the self-heal path makes at most heal_max_retries + 1
\* provider calls, the initial call included.
C1_CallBudget == hCalls <= heal_max_retries + 1

\* C24: a run of layered_json_fix_and_validate inside a running event loop
\* never calls asyncio.run for the self-heal function.
C24_NoNestedLoop == hCtx = "async" => ~hNestedRun

\* C2: the self-heal path never returns to its caller a structure that the
\* schema validator rejects.
C2_NoRejectedStructure ==
    (hpc = "done" /\ hResult.status = "returned" /\ hResult.data.kind # "none")
        => SchemaOk(hResult.data)

\* ------------------------------------------------------------------------
\* Normalization
\* ------------------------------------------------------------------------

\* sanitize_idea_fields raises: the hook is missing or empty and the
\* elevator pitch it is built from is a number (len() of an int)
SanitizeRaises(b) == b.hook \in {"absent", "empty"} /\ b.pitch = "nonstr"

\* sanitize_idea_fields: a missing or empty hook is built from the elevator
\* pitch or set to the default text; the title is kept
SanitizeIdeaFields(b) ==
    IF b.hook \in {"absent", "empty"} THEN [b EXCEPT !.hook = "str"] ELSE b

\* ------------------------------------------------------------------------
\* run_llm_pipeline
\* ------------------------------------------------------------------------

\* stage names: with and without an entry in model_map of validate_llm_output
Stages == {"deep_dive", "suggested"}

StageHasModel(st) == st = "deep_dive"

NoInput == [committed |-> FALSE, raw |-> FALSE, cleaned |-> FALSE]

PlInit ==
    /\ plPc = "start"
    /\ plStage \in Stages
    /\ plInput = NoInput
    /\ plLogs = <<>>
    /\ plRaw = NoText
    /\ plData = NoData
    /\ plResult = "pending"

PlIdle ==
    /\ plPc = "off"
    /\ plStage = "deep_dive"
    /\ plInput = NoInput
    /\ plLogs = <<>>
    /\ plRaw = NoText
    /\ plData = NoData
    /\ plResult = "pending"

PlFrame == UNCHANGED <<gwVars, healVars, ngVars, fnVars>>

PlFailNoLog(step) ==
    /\ plLogs' = plLogs
    /\ plPc' = "done"
    /\ plResult' = "raised"

\* a stage failed: LLMProcessingLog(step=...), commit, raise
PlFail(step) ==
    /\ plLogs' = Append(plLogs, [step |-> step, raw |-> (step = "validation")])
    /\ plPc' = "done"
    /\ plResult' = "raised"

\* 1. db.add(input_log); db.commit(); db.refresh(input_log)
PlLogInput ==
    /\ plPc = "start"
    /\ plInput' = [plInput EXCEPT !.committed = TRUE]
    /\ plPc' = "llm_call"
    /\ UNCHANGED <<plStage, plLogs, plRaw, plData, plResult>>
    /\ PlFrame

\* 2./3. raw_output = await llm_func(context) returns; the raw output is
\* stored in the input log
PlLlmReturns(t) ==
    /\ plPc = "llm_call"
    /\ plRaw' = t
    /\ plInput' = [plInput EXCEPT !.raw = TRUE]
    /\ plPc' = "clean"
    /\ UNCHANGED <<plStage, plLogs, plData, plResult>>
    /\ PlFrame

\* 2. llm_func raises
PlLlmRaises ==
    /\ plPc = "llm_call"
    /\ PlFail("llm_call")
    /\ UNCHANGED <<plStage, plInput, plRaw, plData>>
    /\ PlFrame

PlCancelCaught ==
    /\ plPc = "llm_call"
    /\ plPc' = "done"
    /\ plResult' = "cancelled"
    /\ plLogs' = Append(plLogs, [step |-> "llm_call", raw |-> FALSE])
    /\ UNCHANGED <<plStage, plInput, plRaw, plData>>
    /\ PlFrame

\* 2. the task is cancelled while it waits in "await llm_func(context)":
\* CancelledError is a BaseException, no "except Exception" handler of the
\* function runs and nothing more is committed
PlCancel ==
    /\ plPc = "llm_call"
    /\ plPc' = "done"
    /\ plResult' = "cancelled"
    /\ UNCHANGED <<plStage, plInput, plLogs, plRaw, plData>>
    /\ PlFrame

\* 4. cleaned = robust_extract_json(raw_output); None is a ValueError
PlClean ==
    /\ plPc = "clean"
    /\ LET r == RobustExtractAsync(plRaw)
       IN  IF r.status = "raised" \/ r.data.kind = "none"
           THEN PlFail("cleaning") /\ UNCHANGED plData
           ELSE /\ plData' = r.data
                /\ plPc' = "normalize"
                /\ UNCHANGED <<plLogs, plResult>>
    /\ UNCHANGED <<plStage, plInput, plRaw>>
    /\ PlFrame

\* 5. normalized = sanitize_idea_fields(cleaned)
PlNormalize ==
    /\ plPc = "normalize"
    /\ IF SanitizeRaises(plData.body)
       THEN PlFail("normalization") /\ UNCHANGED plData
       ELSE /\ plData' = [plData EXCEPT !.body = SanitizeIdeaFields(plData.body)]
            /\ plPc' = "validate"
            /\ UNCHANGED <<plLogs, plResult>>
    /\ UNCHANGED <<plStage, plInput, plRaw>>
    /\ PlFrame

\* 6. validated = validate_llm_output(stage, normalized); fits: the record
\* satisfies the Pydantic model of the stage
PlValidate(fits) ==
    /\ plPc = "validate"
    /\ IF StageHasModel(plStage) /\ fits
       THEN /\ plPc' = "store"
            /\ UNCHANGED <<plLogs, plResult>>
       ELSE PlFail("validation")
    /\ UNCHANGED <<plStage, plInput, plRaw, plData>>
    /\ PlFrame

\* 7. input_log.cleaned_output = str(validated); commit; return validated
PlStore ==
    /\ plPc = "store"
    /\ plInput' = [plInput EXCEPT !.cleaned = TRUE]
    /\ plPc' = "done"
    /\ plResult' = "validated"
    /\ UNCHANGED <<plStage, plLogs, plRaw, plData>>
    /\ PlFrame

PlNext ==
    \/ PlLogInput
    \/ \E t \in Texts : PlLlmReturns(t)
    \/ PlLlmRaises
    \/ PlCancel
    \/ PlClean
    \/ PlNormalize
    \/ \E fits \in BOOLEAN : PlValidate(fits)
    \/ PlStore

\* ------------------------------------------------------------------------
\* generate_idea_pitches and run_nightly_pipeline
\* ------------------------------------------------------------------------

\* entries of the "ideas" list of a result of generate_idea_pitches
\*   "idea"           a validated idea
\*   "err_noresp"     {"error": ...}, no title (no response from the LLM)
\*   "err_exception"  title "[ERROR] Exception during idea generation", error
\*   "err_preamble"   title "[ERROR] LLM did not generate ideas", error
HasTitle(e) == e \in {"idea", "err_exception", "err_preamble"}
HasErrorMarker(e) == e \in {"err_noresp", "err_exception", "err_preamble"}

\* the parsing part of generate_idea_pitches on the response t; pre: the
\* response holds one of the preamble phrases
ParseIdeas(t, pre) ==
    LET r == RobustExtractAsync(t)
        viaDict == IF ValidateIdeaDict(SanitizeIdeaFields(r.data.body))
                   THEN <<"idea">> ELSE <<>>
        viaArray == IF t.form # "array" THEN <<>>
                    ELSE IF SanitizeRaises(t.body) THEN <<"err_exception">>
                    ELSE IF ValidateIdeaDict(SanitizeIdeaFields(t.body))
                         THEN <<"idea">> ELSE <<>>
    IN  IF r.status = "returned" /\ r.data.kind = "none" THEN <<>>
        ELSE IF r.status = "returned" /\ ~SanitizeRaises(r.data.body) THEN viaDict
        ELSE \* except branch: preamble check, then extract_json_array
             IF pre THEN <<"err_preamble">> ELSE viaArray

NgInit ==
    /\ ngPc = "generate"
    /\ ngRepo = 1
    /\ ngAttempt = 1
    /\ ngIdeas = <<>>
    /\ ngRows = <<>>

NgIdle ==
    /\ ngPc = "off"
    /\ ngRepo = 1
    /\ ngAttempt = 1
    /\ ngIdeas = <<>>
    /\ ngRows = <<>>

NgFrame == GwFrame /\ UNCHANGED <<healVars, plVars, fnVars>>

\* generate_idea_pitches: response = await call_groq(prompt)
NgCall(rs) ==
    /\ ngPc = "generate"
    /\ counter' = AfterAttempts(SeqCall(rs).attempts)
    /\ IF SeqCall(rs).outcome = "text"
       THEN ngPc' = "response" /\ UNCHANGED ngIdeas
       ELSE IF SeqCall(rs).outcome = "returned_none"
       THEN ngPc' = "persist" /\ ngIdeas' = <<"err_noresp">>
       ELSE ngPc' = "persist" /\ ngIdeas' = <<"err_exception">>
    /\ UNCHANGED <<ngRepo, ngAttempt, ngRows>>
    /\ NgFrame

\* generate_idea_pitches: the response is English and is parsed, or it is
\* not and the provider is asked again
NgResponse(t, english, pre) ==
    /\ ngPc = "response"
    /\ IF english
       THEN ngPc' = "persist" /\ ngIdeas' = ParseIdeas(t, pre)
       ELSE ngPc' = "retry_english" /\ UNCHANGED ngIdeas
    /\ UNCHANGED <<ngRepo, ngAttempt, ngRows, counter>>
    /\ NgFrame

\* generate_idea_pitches: response = await call_groq(prompt_en)
NgCallEnglish(rs) ==
    /\ ngPc = "retry_english"
    /\ counter' = AfterAttempts(SeqCall(rs).attempts)
    /\ IF SeqCall(rs).outcome = "text"
       THEN ngPc' = "response_english" /\ UNCHANGED ngIdeas
       ELSE IF SeqCall(rs).outcome = "returned_none"
       THEN ngPc' = "persist" /\ ngIdeas' = ParseIdeas(NoText, FALSE)
       ELSE ngPc' = "persist" /\ ngIdeas' = <<"err_exception">>
    /\ UNCHANGED <<ngRepo, ngAttempt, ngRows>>
    /\ NgFrame

\* generate_idea_pitches: the second response is parsed
NgResponseEnglish(t, pre) ==
    /\ ngPc = "response_english"
    /\ ngPc' = "persist"
    /\ ngIdeas' = ParseIdeas(t, pre)
    /\ UNCHANGED <<ngRepo, ngAttempt, ngRows, counter>>
    /\ NgFrame

\* the Idea row stored for the ideas entry e
IdeaRow(e) == [entry |-> e, status |-> "suggested"]

\* the row "[ERROR] Failed to parse ideas for ..." built by the caller
FailedParseRow == [entry |-> "failed_parse", status |-> "suggested"]

\* the attempts of a repo are over: next repo or end of the run
NgAdvance ==
    /\ ngAttempt' = 1
    /\ IF ngRepo < NumRepos
       THEN ngRepo' = ngRepo + 1 /\ ngPc' = "generate"
       ELSE ngPc' = "done" /\ UNCHANGED ngRepo

\* run_nightly_pipeline: the body of the attempt loop after the result came
NgPersist ==
    /\ ngPc = "persist"
    /\ IF Len(ngIdeas) > 0 /\ (\E i \in 1..Len(ngIdeas) : HasTitle(ngIdeas[i]))
       THEN \* one Idea row per entry, commit, break
            /\ ngRows' = ngRows \o [i \in 1..Len(ngIdeas) |-> IdeaRow(ngIdeas[i])]
            /\ NgAdvance
       ELSE \* the error row, commit; sleep and try again
            /\ ngRows' = Append(ngRows, FailedParseRow)
            /\ IF ngAttempt < max_attempts
               THEN /\ ngAttempt' = ngAttempt + 1
                    /\ ngPc' = "generate"
                    /\ UNCHANGED ngRepo
               ELSE NgAdvance
    /\ ngIdeas' = <<>>
    /\ UNCHANGED counter
    /\ NgFrame

NgNext ==
    \/ \E rs \in RespSeqs : NgCall(rs)
    \/ \E t \in Texts, english \in BOOLEAN, pre \in BOOLEAN : NgResponse(t, english, pre)
    \/ \E rs \in RespSeqs : NgCallEnglish(rs)
    \/ \E t \in Texts, pre \in BOOLEAN : NgResponseEnglish(t, pre)
    \/ NgPersist

\* ------------------------------------------------------------------------
\* The parsing and validation functions
\* ------------------------------------------------------------------------

\* a fenced code block, with prose around it, that holds a strict JSON array
\* of one object
FencedArrays == {[form |-> "fenced_array", body |-> b] : b \in IdeaDicts}

ParseTexts == Texts \cup FencedArrays

\* the truth value of a field in a condition ("nonstr" is a non-zero number)
Truthy(f) == f \in {"blank", "str", "nonstr"}

\* parse_single_idea: the template idea after idea.update(parsed_json)
TemplateUpdate(b) ==
    [title |-> IF b.title = "absent" THEN "empty" ELSE b.title,
     hook |-> IF b.hook = "absent" THEN "empty" ELSE b.hook,
     pitch |-> b.pitch]

\* parse_single_idea, the line heuristics on a text of lines of 11 to 99
\* characters without a "hook" header: the first line becomes the title and
\* the sanitizer sets the default hook
HeuristicIdea == [title |-> "str", hook |-> "str", pitch |-> "absent"]

\* parse_single_idea on a whole text: a JSON object with a title or a hook
\* updates the template and is sanitized (a failure of the sanitizer is
\* caught, and the sanitizer then fails again, uncaught, at the end of the
\* function); everything else goes through the line heuristics
ParseSingleIdea(t) ==
    IF t.form = "empty" THEN [status |-> "returned", ideas |-> <<>>]
    ELSE IF t.form = "json" /\ (Truthy(t.body.title) \/ Truthy(t.body.hook))
    THEN IF SanitizeRaises(TemplateUpdate(t.body))
         THEN [status |-> "raised", ideas |-> <<>>]
         ELSE [status |-> "returned",
               ideas |-> <<SanitizeIdeaFields(TemplateUpdate(t.body))>>]
    ELSE [status |-> "returned", ideas |-> <<HeuristicIdea>>]

\* parse_idea_response: the items of the first JSON array found in the text
\* are sanitized and filtered (filter_idea_fields keeps title, hook and
\* elevator_pitch) and appended without validation; a text without an array
\* is handed to parse_single_idea as one section
ParseIdeaResponse(t) ==
    IF t.form = "empty" THEN [status |-> "returned", ideas |-> <<>>]
    ELSE IF t.form \in {"array", "fenced_array"}
    THEN IF SanitizeRaises(t.body)
         THEN [status |-> "raised", ideas |-> <<>>]
         ELSE [status |-> "returned", ideas |-> <<SanitizeIdeaFields(t.body)>>]
    ELSE ParseSingleIdea(t)

\* the existing_ideas argument of validate_idea_dict: None, ideas that differ
\* from the new one in title, differentiator and problem statement, or ideas
\* one of which has the title of the new one
ExistingIdeas == {"none", "other", "same"}

\* is_duplicate_idea
IsDuplicateIdea(existing) == existing = "same"

\* the arguments of validate_idea_dict: the idea, by its required fields and
\* by what the quality helpers find in it, and existing_ideas
ValidateInputs ==
    [body : IdeaDicts, existing : ExistingIdeas, generic_title : BOOLEAN,
     evidence_ok : BOOLEAN, unique_diff : BOOLEAN]

\* the warnings of the quality part of validate_idea_dict
QualityWarnings(v) ==
    (IF v.evidence_ok THEN {} ELSE {"evidence_reference"})
    \cup (IF v.unique_diff THEN {} ELSE {"differentiator"})
    \cup (IF v.generic_title THEN {"generic_title"} ELSE {})

ValidateReportHookAsTitle(v) ==
    IF v.body.title # "str" \/ v.body.hook # "str"
    THEN [ok |-> FALSE, field |-> "title", warnings |-> {}]
    ELSE IF v.existing # "none" /\ IsDuplicateIdea(v.existing)
    THEN [ok |-> FALSE, field |-> "none", warnings |-> {"duplicate"}]
    ELSE [ok |-> TRUE, field |-> "none", warnings |-> QualityWarnings(v)]

\* validate_idea_dict: the value returned, the field named by the warning
\* "Missing or empty required field" and the quality warnings logged
ValidateReport(v) ==
    IF v.body.title # "str"
    THEN [ok |-> FALSE, field |-> "title", warnings |-> {}]
    ELSE IF v.body.hook # "str"
    THEN [ok |-> FALSE, field |-> "hook", warnings |-> {}]
    ELSE IF v.existing # "none" /\ IsDuplicateIdea(v.existing)
    THEN [ok |-> FALSE, field |-> "none", warnings |-> {"duplicate"}]
    ELSE [ok |-> TRUE, field |-> "none", warnings |-> QualityWarnings(v)]

\* extract_json_from_llm_response on a provider text: the span from the first
\* "{" to the brace that closes it, or the text when it holds no such span
ExtractJsonObject(t) ==
    IF t.form \in {"json", "fenced", "array", "fenced_array"}
    THEN [form |-> "json", body |-> t.body]
    ELSE t

\* a response of the case study prompt: a JSON object, a JSON array of one
\* object, prose under section headers, or prose without headers; keys are
\* the keys of the object or the titles of the sections that have content
SectionNames == {"background", "outcome"}

CaseTexts ==
    [form : {"json_dict", "json_list", "headers", "plain"},
     keys : SUBSET SectionNames]

\* parse_by_headers: one section per header that has content
ParseByHeaders(c) == IF c.form = "headers" THEN c.keys ELSE {}

\* parse_case_study_response: the keys of the dict returned
ParseCaseStudyResponse(c) ==
    IF c.form \in {"json_dict", "json_list"} THEN c.keys
    ELSE IF ParseByHeaders(c) # {} THEN ParseByHeaders(c)
    ELSE {"raw_analysis"}

\* an investor-deck response: what json.loads makes of the extracted span
\* (an object with "slides", another object, the empty array, a span that
\* only a repair could load, nothing that loads) and whether the text has
\* markdown headers; a text that is an array as a whole has no headers
DeckTexts ==
    {c \in [json : {"dict_slides", "dict_other", "empty_list", "broken", "none"},
            headers : BOOLEAN] : c.json = "empty_list" => ~c.headers}

\* parse_investor_deck_response: the branch that produced the result (via),
\* whether json.loads returned (loaded) and whether a repair was tried; the
\* function has no call of a repair
ParseInvestorDeckResponse(c) ==
    [status |-> "returned",
     via |-> IF c.json = "dict_slides" THEN "json"
             ELSE IF c.headers THEN "headers"
             ELSE "raw",
     loaded |-> c.json \in {"dict_slides", "dict_other", "empty_list"},
     repair_ran |-> FALSE]

\* parse_paragraph_sections: the fields in the order of the if/elif chain
\* (1 product_clarity, 2 timing, 3 market_opportunity, ...); a paragraph is
\* the number of keywords of each field's list it contains
Fields == 1..NumFields
Paragraphs == [Fields -> 0..MaxHits]
ParaTexts == UNION {[1..n -> Paragraphs] : n \in 0..MaxParas}

\* the first branch of the chain whose any(...) holds, 0 for the else branch
FirstMatch(para) ==
    IF \E f \in Fields : para[f] > 0
    THEN CHOOSE f \in Fields : para[f] > 0 /\ \A g \in Fields : g < f => para[g] = 0
    ELSE 0

\* for key in deep_dive: if not deep_dive[key]: ...; break
FirstEmpty(deep_dive) ==
    IF \E f \in Fields : deep_dive[f] = 0
    THEN CHOOSE f \in Fields :
           deep_dive[f] = 0 /\ \A g \in Fields : g < f => deep_dive[g] # 0
    ELSE 0

\* one round of the loop: deep_dive maps a field to the number of the
\* paragraph stored in it, 0 for the empty string
AssignParagraph(deep_dive, i, para) ==
    IF FirstMatch(para) # 0
    THEN IF deep_dive[FirstMatch(para)] = 0
         THEN [deep_dive EXCEPT ![FirstMatch(para)] = i]
         ELSE deep_dive
    ELSE IF FirstEmpty(deep_dive) # 0
         THEN [deep_dive EXCEPT ![FirstEmpty(deep_dive)] = i]
         ELSE deep_dive

RECURSIVE ParseParagraphsFrom(_, _, _)
ParseParagraphsFrom(paras, i, deep_dive) ==
    IF i > Len(paras) THEN deep_dive
    ELSE ParseParagraphsFrom(paras, i + 1, AssignParagraph(deep_dive, i, paras[i]))

ParseParagraphSections(paras) ==
    ParseParagraphsFrom(paras, 1, [f \in Fields |-> 0])

\* the calls of the specification of the parsing functions
ParseInputs ==
    {[kind |-> "text", arg |-> t] : t \in ParseTexts}
    \cup {[kind |-> "idea", arg |-> v] : v \in ValidateInputs}
    \cup {[kind |-> "case", arg |-> c] : c \in CaseTexts}
    \cup {[kind |-> "deck", arg |-> c] : c \in DeckTexts}
    \cup {[kind |-> "dict", arg |-> b] : b \in IdeaDicts}
    \cup {[kind |-> "paras", arg |-> ps] : ps \in ParaTexts}

NoInputArg == [kind |-> "none", arg |-> NoText]
NoOut == [status |-> "none"]

PsInit ==
    /\ psIn \in ParseInputs
    /\ psOp = "input"
    /\ psOut = NoOut

PsIdle ==
    /\ psIn = NoInputArg
    /\ psOp = "off"
    /\ psOut = NoOut

PsFrame == UNCHANGED <<gwVars, healVars, plVars, ngVars, exVars, ddVars>>

CallParseIdeaResponse ==
    /\ psOp = "input"
    /\ psIn.kind = "text"
    /\ psOp' = "parse_idea_response"
    /\ psOut' = ParseIdeaResponse(psIn.arg)
    /\ UNCHANGED psIn
    /\ PsFrame

CallValidateIdeaDict ==
    /\ psOp = "input"
    /\ psIn.kind = "idea"
    /\ psOp' = "validate_idea_dict"
    /\ psOut' = ValidateReport(psIn.arg)
    /\ UNCHANGED psIn
    /\ PsFrame

\* robust_extract_json called from a coroutine
CallRobustExtractJson ==
    /\ psOp = "input"
    /\ psIn.kind = "text"
    /\ psOp' = "robust_extract_json"
    /\ psOut' = RobustExtractAsync(psIn.arg)
    /\ UNCHANGED psIn
    /\ PsFrame

\* data = json.loads(extract_json_from_llm_response(response))
CallExtractAndLoads ==
    /\ psOp = "input"
    /\ psIn.kind = "text"
    /\ psOp' = "extract_and_loads"
    /\ psOut' = IF JsonLoads(ExtractJsonObject(psIn.arg)).kind = "fail"
                THEN [status |-> "raised", data |-> NoData]
                ELSE [status |-> "returned",
                      data |-> JsonLoads(ExtractJsonObject(psIn.arg))]
    /\ UNCHANGED psIn
    /\ PsFrame

\* repair_json_with_py with dirtyjson installed: always a normal return
CallRepairJson ==
    /\ psOp = "input"
    /\ psIn.kind = "text"
    /\ psOp' = "repair_json_with_py"
    /\ psOut' = [status |-> "returned", text |-> RepairJson(psIn.arg)]
    /\ UNCHANGED psIn
    /\ PsFrame

CallParseCaseStudy ==
    /\ psOp = "input"
    /\ psIn.kind = "case"
    /\ psOp' = "parse_case_study_response"
    /\ psOut' = [status |-> "returned", keys |-> ParseCaseStudyResponse(psIn.arg)]
    /\ UNCHANGED psIn
    /\ PsFrame

CallParseInvestorDeck ==
    /\ psOp = "input"
    /\ psIn.kind = "deck"
    /\ psOp' = "parse_investor_deck_response"
    /\ psOut' = ParseInvestorDeckResponse(psIn.arg)
    /\ UNCHANGED psIn
    /\ PsFrame

\* sanitize_idea_fields(idea): the function assigns into idea and ends with
\* "return idea"; arg_after is the caller's dict after the call
CallSanitizeIdeaFields ==
    /\ psOp = "input"
    /\ psIn.kind = "dict"
    /\ psOp' = "sanitize_idea_fields"
    /\ psOut' = IF SanitizeRaises(psIn.arg)
                THEN [status |-> "raised", result |-> NoBody,
                      arg_after |-> psIn.arg, same_object |-> FALSE]
                ELSE [status |-> "returned",
                      result |-> SanitizeIdeaFields(psIn.arg),
                      arg_after |-> SanitizeIdeaFields(psIn.arg),
                      same_object |-> TRUE]
    /\ UNCHANGED psIn
    /\ PsFrame

CallParseParagraphSections ==
    /\ psOp = "input"
    /\ psIn.kind = "paras"
    /\ psOp' = "parse_paragraph_sections"
    /\ psOut' = [status |-> "returned",
                 deep_dive |-> ParseParagraphSections(psIn.arg)]
    /\ UNCHANGED psIn
    /\ PsFrame

PsNext ==
    \/ CallParseIdeaResponse
    \/ CallValidateIdeaDict
    \/ CallRobustExtractJson
    \/ CallExtractAndLoads
    \/ CallRepairJson
    \/ CallParseCaseStudy
    \/ CallParseInvestorDeck
    \/ CallSanitizeIdeaFields
    \/ CallParseParagraphSections

\* ------------------------------------------------------------------------
\* extract_json_from_llm_response on the characters of a text
\* ------------------------------------------------------------------------

\* a text without code fences, as a sequence of tokens:
\*   "{" "}"  a brace (inside or outside a string literal)
\*   "q"      a double quote
\*   "d"      a run of delimiter characters: "---", "###" or "==="
\*   "x"      a run of other characters, none of them a space at the ends
Tokens == {"{", "}", "q", "d", "x"}

CharTexts == UNION {[1..n -> Tokens] : n \in 0..MaxTextLen}

\* str.find: the index of the first token c of s, 0 when there is none
RECURSIVE FindFrom(_, _, _)
FindFrom(s, c, i) ==
    IF i > Len(s) THEN 0
    ELSE IF s[i] = c THEN i
    ELSE FindFrom(s, c, i + 1)

Find(s, c) == FindFrom(s, c, 1)

\* response.split(delimiter)[0] for the three delimiters in turn: the text
\* before the first delimiter
BeforeDelimiter(s) ==
    IF Find(s, "d") = 0 THEN s ELSE SubSeq(s, 1, Find(s, "d") - 1)

\* the loop over response[start:]: the index at which brace_count comes back
\* to zero, 0 when the loop ends without a break
RECURSIVE MatchingBrace(_, _, _)
MatchingBrace(s, i, brace_count) ==
    IF i > Len(s) THEN 0
    ELSE IF s[i] = "{" THEN MatchingBrace(s, i + 1, brace_count + 1)
    ELSE IF s[i] = "}"
         THEN IF brace_count - 1 = 0 THEN i
              ELSE MatchingBrace(s, i + 1, brace_count - 1)
    ELSE MatchingBrace(s, i + 1, brace_count)

\* extract_json_from_llm_response: every branch returns a string
ExtractJsonFromLlmResponse(s) ==
    LET response == BeforeDelimiter(s)
        start == Find(response, "{")
        end == MatchingBrace(response, start, 0)
    IN  IF start = 0 THEN [is_none |-> FALSE, text |-> response]
        ELSE IF end # 0
        THEN [is_none |-> FALSE, text |-> SubSeq(response, start, end)]
        ELSE [is_none |-> FALSE, text |-> response]

ExInit ==
    /\ exIn \in CharTexts
    /\ exPc = "input"
    /\ exOut = [is_none |-> FALSE, text |-> <<>>]

ExIdle ==
    /\ exIn = <<>>
    /\ exPc = "off"
    /\ exOut = [is_none |-> FALSE, text |-> <<>>]

CallExtractJson ==
    /\ exPc = "input"
    /\ exPc' = "done"
    /\ exOut' = ExtractJsonFromLlmResponse(exIn)
    /\ UNCHANGED exIn
    /\ UNCHANGED <<gwVars, healVars, plVars, ngVars, psVars, ddVars>>

ExNext == CallExtractJson

\* ------------------------------------------------------------------------
\* IdeaService: 'idea.status.updated' handlers and deep-dive worker threads
\* of one idea.  Every handler and every worker has its own database
\* session; a session sees what was committed when it queried.
\* ------------------------------------------------------------------------
Handlers == {"h1", "h2"}

\* what asyncio.run(generate_deep_dive(idea_data)) gives with the function
\* that idea_service imports (legacy_wrappers): a DeepDiveIdeaData built from
\* the parsed data, a DeepDiveIdeaData that carries only the parse error, or
\* an exception of the provider call
DeepDiveResults == {"object", "object_error", "raises"}

\* the branch of _generate_and_save_deep_dive a result ends in: a
\* DeepDiveIdeaData has no attribute get, so deep_dive_result.get(...) raises
\* AttributeError; a dict would go on to "if deep_dive_data: ... else: ..."
WorkerBranch(result) ==
    IF result \in {"raises", "object", "object_error"} THEN "except"
    ELSE IF result = "dict_data" THEN "saved"
    ELSE "no_data"

FlagAfterWorkerKept(branch, flag) == flag

\* the committed flag when the worker has closed its session: the except
\* branch sets it to False before db.commit(); the no-data branch sets it
\* after its db.commit(), which db.close() discards
FlagAfterWorker(branch, flag) ==
    IF branch = "except" THEN FALSE ELSE flag

DdInit ==
    /\ ddFlag = FALSE
    /\ ddPc = [h \in Handlers |-> "idle"]
    /\ ddSeen = [h \in Handlers |-> FALSE]
    /\ ddEvents = 0
    /\ wkRunning = 0
    /\ wkEnded = 0
    /\ wkLast = "none"
    /\ ddStarts = 0

DdIdle ==
    /\ ddFlag = FALSE
    /\ ddPc = [h \in Handlers |-> "off"]
    /\ ddSeen = [h \in Handlers |-> FALSE]
    /\ ddEvents = 0
    /\ wkRunning = 0
    /\ wkEnded = 0
    /\ wkLast = "none"
    /\ ddStarts = 0

DdFrame == GwFrame /\ UNCHANGED <<counter, healVars, plVars, ngVars, psVars, exVars>>

\* _on_status_updated(idea_id, 'deep_dive'): db = SessionLocal();
\* idea = db.query(Idea)...first()
DdQuery(h) ==
    /\ ddPc[h] = "idle"
    /\ ddEvents < MaxEvents
    /\ ddEvents' = ddEvents + 1
    /\ ddSeen' = [ddSeen EXCEPT ![h] = ddFlag]
    /\ ddPc' = [ddPc EXCEPT ![h] = "queried"]
    /\ UNCHANGED <<ddFlag, wkRunning, wkEnded, wkLast, ddStarts>>
    /\ DdFrame

\* if getattr(idea, 'deep_dive_requested', None) is not True:
\*     setattr(idea, "deep_dive_requested", True); db.commit()
\* else: "was already requested"
DdMark(h) ==
    /\ ddPc[h] = "queried"
    /\ IF ddSeen[h]
       THEN /\ ddPc' = [ddPc EXCEPT ![h] = "idle"]
            /\ UNCHANGED <<ddFlag, ddStarts>>
       ELSE /\ ddPc' = [ddPc EXCEPT ![h] = "marked"]
            /\ ddFlag' = TRUE
            /\ ddStarts' = IF ddFlag THEN ddStarts ELSE 0
    /\ UNCHANGED <<ddSeen, ddEvents, wkRunning, wkEnded, wkLast>>
    /\ DdFrame

\* thread = threading.Thread(target=self._generate_and_save_deep_dive, ...)
\* thread.start()
DdStartWorker(h) ==
    /\ ddPc[h] = "marked"
    /\ ddPc' = [ddPc EXCEPT ![h] = "idle"]
    /\ wkRunning' = wkRunning + 1
    /\ ddStarts' = ddStarts + 1
    /\ UNCHANGED <<ddFlag, ddSeen, ddEvents, wkEnded, wkLast>>
    /\ DdFrame

\* a worker thread runs _generate_and_save_deep_dive to its end
WkEnd(result) ==
    /\ wkRunning > 0
    /\ wkRunning' = wkRunning - 1
    /\ wkEnded' = wkEnded + 1
    /\ wkLast' = WorkerBranch(result)
    /\ ddFlag' = FlagAfterWorker(WorkerBranch(result), ddFlag)
    /\ UNCHANGED <<ddPc, ddSeen, ddEvents, ddStarts>>
    /\ DdFrame

DdNext ==
    \/ \E h \in Handlers : DdQuery(h)
    \/ \E h \in Handlers : DdMark(h)
    \/ \E h \in Handlers : DdStartWorker(h)
    \/ \E result \in DeepDiveResults : WkEnd(result)

InitDeepDive == GwSolo /\ HealIdle /\ PlIdle /\ NgIdle /\ PsIdle /\ ExIdle /\ DdInit

SpecDeepDive == InitDeepDive /\ [][DdNext]_vars

\* C28: while the flag of the idea is set, at most one worker thread has
\* been started since it was set.
C28_OneWorkerPerRequest == ddFlag => ddStarts <= 1

InitHeal == GwSolo /\ HealInit /\ PlIdle /\ NgIdle /\ PsIdle /\ ExIdle /\ DdIdle

SpecHeal == InitHeal /\ [][HealNext]_vars

\* One run of the orchestrator
InitPipeline == GwSolo /\ HealIdle /\ PlInit /\ NgIdle /\ PsIdle /\ ExIdle /\ DdIdle

SpecPipeline == InitPipeline /\ [][PlNext]_vars

\* One nightly run
InitNightly == GwSolo /\ HealIdle /\ PlIdle /\ NgInit /\ PsIdle /\ ExIdle /\ DdIdle

SpecNightly == InitNightly /\ [][NgNext]_vars

\* C3: for every data-quality failure (no JSON extracted, normalization
\* failure, schema-validation failure) the run ends by returning a typed
\* result; no exception escapes to the caller.
C3_NoEscape ==
    (plPc = "done" /\ \E i \in 1..Len(plLogs) :
                        plLogs[i].step \in {"cleaning", "normalization", "validation"})
        => plResult # "raised"

\* the position of the run in the order of its stages
PcRank(p) ==
    CASE p = "start" -> 0
      [] p = "llm_call" -> 1
      [] p = "clean" -> 2
      [] p = "normalize" -> 3
      [] p = "validate" -> 4
      [] p = "store" -> 5
      [] OTHER -> 6

\* the step name logged for a failure at position p
FailedStep(p) ==
    CASE p = "llm_call" -> "llm_call"
      [] p = "clean" -> "cleaning"
      [] p = "normalize" -> "normalization"
      [] p = "validate" -> "validation"
      [] OTHER -> "none"

\* C22: every stage transition of a run (provider call, cleaning,
\* normalization, validation), successful or not, appended one entry to the
\* processing log of the run: after k transitions the log has k entries.
C22_EntryPerTransition ==
    plPc \in {"clean", "normalize", "validate", "store"}
        => Len(plLogs) = PcRank(plPc) - 1

\* C25: a run cancelled while it waited for the provider has stored the input
\* log written before the call and nothing else: no raw output, no payload,
\* no validated record, no processing log.
C25_CancelStoresNothing ==
    plResult = "cancelled"
        => /\ plInput = [committed |-> TRUE, raw |-> FALSE, cleaned |-> FALSE]
           /\ plLogs = <<>>
           /\ plData = NoData

\* C25 witness: a run was cancelled during the provider call
C25_Witness ==
    /\ plResult = "cancelled"
    /\ plPc = "done"
    /\ plInput.committed

\* C30: the stages run in the order provider call, cleaning, normalization,
\* validation; the step in which a stage fails commits one processing-log
\* entry naming that stage and ends the run, and a failed run has exactly
\* one processing-log entry and no validated output stored.
C30_OrderedFailStop ==
    [][/\ plPc' # plPc
          => (plPc' = "done" \/ PcRank(plPc') = PcRank(plPc) + 1)
       /\ (plResult' = "raised" /\ plResult # "raised")
          => /\ plPc' = "done"
             /\ Len(plLogs') = Len(plLogs) + 1
             /\ plLogs'[Len(plLogs')].step = FailedStep(plPc)
       /\ plResult' = "raised"
          => /\ Len(plLogs') = 1
             /\ ~plInput'.cleaned
             /\ plPc' = "done"]_vars

\* C30 witness: normalization failed after the provider call and the cleaning
\* succeeded
C30_Witness ==
    /\ plResult = "raised"
    /\ Len(plLogs) = 1
    /\ plLogs[1].step = "normalization"
    /\ plInput.raw
    /\ ~plInput.cleaned

\* C10: an ideas entry with an error marker is never stored as an ordinary
\* Idea row with status "suggested".
C10_ErrorNotPersisted ==
    \A i \in 1..Len(ngRows) :
        ~(ngRows[i].status = "suggested" /\ HasErrorMarker(ngRows[i].entry))

\* One call of a parsing or validation function
InitParse == GwSolo /\ HealIdle /\ PlIdle /\ NgIdle /\ PsInit /\ ExIdle /\ DdIdle

SpecParse == InitParse /\ [][PsNext]_vars

\* One call of the extractor
InitExtract == GwSolo /\ HealIdle /\ PlIdle /\ NgIdle /\ PsIdle /\ ExInit /\ DdIdle

SpecExtract == InitExtract /\ [][ExNext]_vars

\* Concurrent gateway callers
InitGateway == GwInit /\ HealIdle /\ PlIdle /\ NgIdle /\ PsIdle /\ ExIdle /\ DdIdle

SpecGateway == InitGateway /\ [][GwNext]_vars

\* ------------------------------------------------------------------------
\* Claims about the gateway
\* ------------------------------------------------------------------------

\* C4: under every interleaving of coroutines and worker threads each attempt
\* reads the rotation counter and increments it as one atomic step: the
\* counter equals the number of attempts made (no lost update) and the i-th
\* attempt of a gateway used index i mod N.
C4_AtomicRotation ==
    /\ \A g \in Gateways : counter[g] = taken[g]
    /\ rankOk

\* C5: a gateway call that completes returned the completion text or raised
\* a provider error; it never completes returning None.
C5_TextOrRaise ==
    \A p \in Procs :
        pc[p] = "done" => outcome[p] \in {"text", "raise_transient", "raise_fatal"}

\* the call answered 429, 429, success has completed
Scenario4(p) == pc[p] = "done" /\ resp[p] = <<"429", "429", "ok">>

\* a retry of the call used another credential than its first attempt
SomeRetryDiffers(p) == \E i \in 2..Len(used[p]) : used[p][i] # used[p][1]

\* C6 as stated: after 429, 429, success the call returns the text after
\* exactly two retry-after sleeps and, with more than one credential, some
\* retry used another credential than the first attempt, also when other
\* callers advance the counter between the attempts.
C6_Original ==
    \A p \in Procs :
        Scenario4(p) =>
            /\ outcome[p] = "text"
            /\ sl429[p] = 2
            /\ slBack[p] = 0
            /\ (nKeys > 1 => SomeRetryDiffers(p))

\* C6 amended: after 429, 429, success the call returns the text after
\* exactly two retry-after sleeps and, with more than one credential and no
\* other caller advancing the counter between the call's attempts, some
\* retry used another credential than the first attempt.
C6_Scenario4 ==
    \A p \in Procs :
        Scenario4(p) =>
            /\ outcome[p] = "text"
            /\ sl429[p] = 2
            /\ slBack[p] = 0
            /\ ((nKeys > 1 /\ ~foreign[p]) => SomeRetryDiffers(p))

\* C6 witness: the scenario completed with a pool of several credentials,
\* undisturbed, while the other caller also made an attempt
C6_Witness ==
    \E p \in Procs :
        /\ Scenario4(p)
        /\ nKeys > 1
        /\ ~foreign[p]
        /\ \E q \in Procs \ {p} : Len(used[q]) >= 1

\* C7: one call sends at most max_retries requests, 429 and transient
\* failures counted together; each transient failure before the last attempt
\* is followed by one fixed backoff sleep and a retry, and a transient
\* failure on the last attempt is raised.
C7_BoundedAttempts ==
    \A p \in Procs :
        /\ reqs[p] <= max_retries
        /\ Len(resp[p]) <= reqs[p]
        /\ slBack[p] = Cardinality({i \in 1..Len(resp[p]) :
                                      resp[p][i] = "neterr" /\ i < max_retries})
        /\ \A i \in 1..Len(resp[p]) :
             resp[p][i] = "neterr" =>
                IF i < max_retries
                THEN i < Len(resp[p]) \/ pc[p] # "done"
                ELSE pc[p] = "done" /\ outcome[p] = "raise_transient"

\* C7 witness: 429 and transient failures together used up the attempts and
\* the last transient failure was raised
C7_Witness ==
    \E p \in Procs :
        /\ resp[p] = <<"neterr", "429", "neterr">>
        /\ pc[p] = "done"
        /\ reqs[p] = max_retries

\* C8: after an HTTP error status other than 429 the call raises at once:
\* that response is its last, no sleep follows it and the call takes no
\* further credential.
C8_FatalNotRetried ==
    \A p \in Procs :
        \A i \in 1..Len(resp[p]) :
            resp[p][i] = "httperr" =>
                /\ i = Len(resp[p])
                /\ pc[p] = "done"
                /\ outcome[p] = "raise_fatal"
                /\ reqs[p] = i
                /\ Len(used[p]) = i
                /\ sl429[p] + slBack[p] = i - 1

\* C8 witness: a call was retried once and then got an HTTP error
C8_Witness ==
    \E p \in Procs :
        /\ resp[p] = <<"429", "httperr">>
        /\ pc[p] = "done"

\* C9: every attempt of the process advances one and the same counter, so
\* attempts in global order use consecutive indices mod N.
C9_SingleCounter ==
    /\ Cardinality({g \in Gateways : ticket[g] > 0}) <= 1
    /\ gRankOk

\* ------------------------------------------------------------------------
\* Claims about the parsing and validation functions
\* ------------------------------------------------------------------------

\* C11: every idea record returned by parse_idea_response has a non-empty
\* string as title and as hook: a required field missing from the payload was
\* filled with a default, or the record was rejected.
C11_RequiredFieldsPresent ==
    (psOp = "parse_idea_response" /\ psOut.status = "returned")
        => \A i \in 1..Len(psOut.ideas) :
              /\ psOut.ideas[i].title = "str"
              /\ psOut.ideas[i].hook = "str"

\* C12: a record whose title is a non-empty string and whose hook is absent,
\* empty, whitespace only or not a string is rejected by validate_idea_dict,
\* and the failure it reports names the field hook.
C12_MissingHookRejected ==
    (/\ psOp = "validate_idea_dict"
     /\ psIn.arg.body.title = "str"
     /\ psIn.arg.body.hook # "str")
        => (~psOut.ok /\ psOut.field = "hook")

\* C12 witness: a record with a valid title and no hook was validated and
\* rejected
C12_Witness ==
    /\ psOp = "validate_idea_dict"
    /\ psIn.arg.body.title = "str"
    /\ psIn.arg.body.hook = "absent"
    /\ ~psOut.ok
    /\ psOut.field = "hook"

\* C13: for a response that is one JSON object, parse_idea_response returns
\* a list holding that idea, with the title of the payload, when the object
\* has the required fields, and the empty list when it lacks one.
C13_ListMatchesObject ==
    (psOp = "parse_idea_response" /\ psIn.arg.form = "json")
        => IF ValidateIdeaDict(psIn.arg.body)
           THEN /\ psOut.status = "returned"
                /\ Len(psOut.ideas) = 1
                /\ psOut.ideas[1].title = psIn.arg.body.title
           ELSE /\ psOut.status = "returned"
                /\ psOut.ideas = <<>>

\* C14: a record whose title and hook are valid is accepted by
\* validate_idea_dict whatever the quality heuristics find (generic title,
\* invalid evidence reference, generic differentiator, duplicate of an
\* existing idea).
C14_HeuristicsOnlyWarn ==
    (/\ psOp = "validate_idea_dict"
     /\ psIn.arg.body.title = "str"
     /\ psIn.arg.body.hook = "str")
        => psOut.ok

\* C15: for a valid JSON object or array in a fenced code block with prose
\* around it, extraction followed by parsing gives a structure equal to the
\* original one.
C15_FencedRoundTrip ==
    (/\ psOp \in {"robust_extract_json", "extract_and_loads"}
     /\ psIn.arg.form \in {"fenced", "fenced_array"})
        => /\ psOut.status = "returned"
           /\ psOut.data = [kind |-> IF psIn.arg.form = "fenced"
                                     THEN "dict" ELSE "list",
                            body |-> psIn.arg.body]

\* C19: what repair_json_with_py returns as a normal result is strictly
\* valid JSON text.
C19_RepairValidOrFailure ==
    (psOp = "repair_json_with_py" /\ psOut.status = "returned")
        => JsonLoads(psOut.text).kind # "fail"

\* C20: a record built by the header fallback of parse_case_study_response
\* carries a provenance marker: a key that is not the title of a section of
\* the text.
C20_HeuristicMarked ==
    (psOp = "parse_case_study_response" /\ ParseByHeaders(psIn.arg) # {})
        => psOut.keys \ psIn.arg.keys # {}

\* ------------------------------------------------------------------------
\* Claims about extract_json_from_llm_response
\* ------------------------------------------------------------------------

\* the JSON reading of a text from index i on: the index of the brace that
\* closes the object, braces and delimiters inside string literals not
\* counted; 0 when the object is not well-formed
RECURSIVE ObjectEnd(_, _, _, _)
ObjectEnd(s, i, depth, inStr) ==
    IF i > Len(s) THEN 0
    ELSE IF inStr THEN ObjectEnd(s, i + 1, depth, s[i] # "q")
    ELSE IF s[i] = "q" THEN ObjectEnd(s, i + 1, depth, TRUE)
    ELSE IF s[i] = "{" THEN ObjectEnd(s, i + 1, depth + 1, FALSE)
    ELSE IF s[i] = "}"
         THEN IF depth = 1 THEN i ELSE ObjectEnd(s, i + 1, depth - 1, FALSE)
    ELSE IF s[i] = "d" THEN 0
    ELSE ObjectEnd(s, i + 1, depth, FALSE)

\* the text is one well-formed JSON object
IsObject(o) == Len(o) > 0 /\ o[1] = "{" /\ ObjectEnd(o, 1, 0, FALSE) = Len(o)

\* C16: when the first "{" of the text opens a well-formed JSON object, the
\* extractor returns the text from that "{" through the "}" that closes it.
C16_ExactSpan ==
    (/\ exPc = "done"
     /\ Find(exIn, "{") # 0
     /\ ObjectEnd(exIn, Find(exIn, "{"), 0, FALSE) # 0)
        => exOut.text = SubSeq(exIn, Find(exIn, "{"),
                               ObjectEnd(exIn, Find(exIn, "{"), 0, FALSE))

\* C17: when the text holds no "{", or the brace depth after the first "{"
\* never comes back to zero, the extractor reports that it found nothing.
C17_NoneWhenNoSpan ==
    (/\ exPc = "done"
     /\ \/ Find(exIn, "{") = 0
        \/ MatchingBrace(exIn, Find(exIn, "{"), 0) = 0)
        => exOut.is_none

\* C18: for a text made of two JSON objects with a delimiter line between
\* them, the extractor returns the first object, whole and unchanged.
C18_FirstOfTwo ==
    exPc = "done"
        => \A k \in 1..Len(exIn) :
              (/\ exIn[k] = "d"
               /\ IsObject(SubSeq(exIn, 1, k - 1))
               /\ IsObject(SubSeq(exIn, k + 1, Len(exIn))))
                  => exOut.text = SubSeq(exIn, 1, k - 1)

\* C21: in parse_investor_deck_response the header-based fallback runs only
\* after extraction and repair have both failed: whenever the result does not
\* come from the JSON branch, json.loads did not return a structure, and a
\* span that json.loads rejected went through a repair first.
C21_FallbackAfterRepair ==
    (psOp = "parse_investor_deck_response" /\ psOut.via # "json")
        => /\ ~psOut.loaded
           /\ psIn.arg.json = "broken" => psOut.repair_ran

\* C23: sanitize_idea_fields leaves the dict passed in as it was and returns
\* a new record.
C23_InputNotMutated ==
    (psOp = "sanitize_idea_fields" /\ psOut.status = "returned")
        => (psOut.arg_after = psIn.arg /\ ~psOut.same_object)

\* the fields whose keyword list matches the paragraph best
BestFields(para) ==
    {f \in Fields : para[f] > 0 /\ \A g \in Fields : para[g] <= para[f]}

\* C27: every paragraph that matches some keyword list is stored in a field
\* whose list matches it best, unless an earlier paragraph already holds that
\* field; a paragraph that matches none fills the first field that is still
\* empty when the paragraph is reached.
C27_BestMatchWins ==
    psOp = "parse_paragraph_sections"
        => \A i \in 1..Len(psIn.arg) :
             /\ BestFields(psIn.arg[i]) # {}
                  => \E f \in BestFields(psIn.arg[i]) :
                       \/ psOut.deep_dive[f] = i
                       \/ (psOut.deep_dive[f] # 0 /\ psOut.deep_dive[f] < i)
             /\ BestFields(psIn.arg[i]) = {}
                  => \/ \E f \in Fields : psOut.deep_dive[f] = i
                     \/ \A f \in Fields :
                          psOut.deep_dive[f] # 0 /\ psOut.deep_dive[f] < i

\* C26: with no credential configured no caller ever gets past the failed
\* initialization (no attempt, no request, no credential selected), and
\* whenever a caller is inside a gateway call or has selected a credential
\* the pool is non-empty.
C26_PoolNonEmpty ==
    /\ \A p \in Procs : (pc[p] # "idle" \/ used[p] # <<>>) => nKeys >= 1
    /\ nKeys = 0 => \A p \in Procs : pc[p] = "idle" /\ reqs[p] = 0 /\ used[p] = <<>>

\* C26 witness: with a pool of one credential a caller has selected it and
\* sent a request
C26_Witness ==
    \E p \in Procs : nKeys = 1 /\ Len(used[p]) >= 1 /\ reqs[p] >= 1

====
